---- MODULE Spec2Model ----
(***************************************************************************)
(* A model of graal_utils: the execution Timer (graal_utils/timer.py) and  *)
(* the function-to-command-line generator (graal_utils/parser.py).         *)
(*                                                                         *)
(* Conventions.                                                            *)
(*  - Python floats holding seconds are fixed-point integers counting      *)
(*    thousandths (1.0 is 1000): int(x) is x \div 1000, x > 1 is x > 1000. *)
(*  - Python values of mixed type are records [k, v]: k the type tag       *)
(*    ("None", "str", "func", "lambda", "range", "generator"), v the       *)
(*    string payload (a name, or the instance a lambda is bound to).       *)
(*  - Command-line tokens are sequences of one-character strings, so that  *)
(*    lower(), replace(), split() and int() are computed character by      *)
(*    character.                                                           *)
(***************************************************************************)
EXTENDS Integers, Sequences, FiniteSets, TLC

VARIABLES
    \* ---- fields of the one Timer instance (timer.py 90-95, 191, 205)
    wrapped_func,         \* self._wrapped_func
    wrapped_method,       \* self.__wrapped_method
    name,                 \* self.__name__ ("" while unset)
    display_name,         \* self.display_name
    start_time,           \* self.start_time
    elapsed_time,         \* self.elapsed_time
    elapsed_time_format,  \* self.elapsed_time_format
    \* ---- the interpreter around it
    given,                \* the arguments the constructor was called with, the
                          \* exception it raised, and the callable wrapped since
    loop,                 \* what `for i in timer` has done
    now,                  \* time()
    stack,                \* the activations running, innermost last, each with
                          \* its call, its own entry time and the lines printed for it
    last,                 \* the activation that has just exited, with what its caller
                          \* is handed; forgotten at the caller's next step
    \* ---- format_elapsed_time applied to a drawn duration
    fmtIn,
    fmtOut,
    \* ---- one run of the entry point func_to_cmd generates
    cmdIn,
    cmdOut

timerVars == <<wrapped_func, wrapped_method, name, display_name, start_time,
               elapsed_time, elapsed_time_format, given, loop, now, stack, last>>
fmtVars == <<fmtIn, fmtOut>>
cmdVars == <<cmdIn, cmdOut>>
vars == <<timerVars, fmtVars, cmdVars>>

(***************************************************************************)
(* Bounds of the model.                                                    *)
(***************************************************************************)
MaxDepth == 2         \* activations running at once (nesting depth)
MaxTicks == 1         \* clock advances in one behaviour
RecursionLimit == 2   \* frames the interpreter allows a call chain to stack up
MaxDays == 1          \* whole days in a drawn duration
MaxFlags == 2         \* options on a command line

\* None for start_time and elapsed_time
NoneT == -1

(***************************************************************************)
(* Values.                                                                 *)
(***************************************************************************)
NoneV == [k |-> "None", v |-> ""]
Str(s) == [k |-> "str", v |-> s]
Fn(n) == [k |-> "func", v |-> n]
Lambda(parent) == [k |-> "lambda", v |-> parent]

NoExc == [type |-> "", msg |-> ""]
RecursionError == [type |-> "RecursionError", msg |-> "maximum recursion depth exceeded"]
\* what a timed region may raise by itself
Excs == {[type |-> "RuntimeError", msg |-> "boom"]}

\* The colour attributes: the emulated Fore/Style return '' for every attribute.
Fore(color) == ""

(***************************************************************************)
(* Duration formatting.                                                    *)
(***************************************************************************)
Unit == 10 * 10 * 10     \* thousandths in 1.0

TwoDigits(n) == IF n < 10 THEN "0" \o ToString(n) ELSE ToString(n)

\* f"{x:.2f}": x rounded to hundredths.  A value exactly halfway between two
\* hundredths in decimal is above or below the half in binary, so it rounds
\* either way: tieUp says which.
Fmt2f(x, tieUp) ==
    LET r == x % 10
        c == (x \div 10) + (IF r > 5 \/ (r = 5 /\ tieUp) THEN 1 ELSE 0)
    IN  ToString(c \div 100) \o "." \o TwoDigits(c % 100)

PeriodWord(period) ==
    CASE period = "d" -> "day"
      [] period = "h" -> "hour"
      [] period = "m" -> "minute"
      [] period = "s" -> "second"

pluralize(period_value) == IF period_value > Unit THEN "s" ELSE ""

format_long_time(seconds, period, tieUp) ==
    LET format_period_string == PeriodWord(period) \o pluralize(seconds)
    IN  IF period # "s"
        THEN ToString(seconds \div Unit) \o " " \o format_period_string
        ELSE Fmt2f(seconds, tieUp) \o " " \o format_period_string

format_short_time(seconds, period, tieUp) ==
    IF period # "s"
    THEN ToString(seconds \div Unit) \o period
    ELSE Fmt2f(seconds, tieUp) \o period

\* periods.items(), in insertion order, each with its length in seconds
Periods == << <<"d", 60 * 60 * 24>>, <<"h", 60 * 60>>, <<"m", 60>> >>

\* the loop with > for >=
RECURSIVE PeriodLoopMut(_, _)
PeriodLoopMut(seconds, i) ==
    IF i > Len(Periods)
    THEN << [period |-> "s", value |-> seconds] >>
    ELSE LET period_name == Periods[i][1]
             period_seconds == Periods[i][2] * Unit
         IN  IF seconds > period_seconds
             THEN << [period |-> period_name,
                      value |-> (seconds \div period_seconds) * Unit] >>
                  \o PeriodLoopMut(seconds % period_seconds, i + 1)
             ELSE PeriodLoopMut(seconds, i + 1)

\* The loop of format_elapsed_time from its i-th period on: the
\* (period_value, period_name) pairs it hands to format_time, the seconds
\* left over last.
RECURSIVE PeriodLoop(_, _)
PeriodLoop(seconds, i) ==
    IF i > Len(Periods)
    THEN << [period |-> "s", value |-> seconds] >>
    ELSE LET period_name == Periods[i][1]
             period_seconds == Periods[i][2] * Unit
         IN  IF seconds >= period_seconds
             THEN << [period |-> period_name,
                      value |-> (seconds \div period_seconds) * Unit] >>
                  \o PeriodLoop(seconds % period_seconds, i + 1)
             ELSE PeriodLoop(seconds, i + 1)

format_time(is_long, value, period, tieUp) ==
    IF is_long THEN format_long_time(value, period, tieUp)
               ELSE format_short_time(value, period, tieUp)

RECURSIVE JoinSpace(_)
JoinSpace(strings) ==
    IF Len(strings) = 0 THEN ""
    ELSE IF Len(strings) = 1 THEN strings[1]
    ELSE strings[1] \o " " \o JoinSpace(Tail(strings))

format_elapsed_time(fmt, time_color, seconds, tieUp) ==
    LET is_long == fmt = "long"
        parts == PeriodLoop(seconds, 1)
        time_strings == [i \in 1..Len(parts) |->
                            format_time(is_long, parts[i].value, parts[i].period, tieUp)]
    IN  Fore(time_color) \o JoinSpace(time_strings)

(***************************************************************************)
(* The Timer.                                                              *)
(***************************************************************************)
\* What a Timer can be constructed around or named with: nothing, a name, a
\* function, a method of a class, or an iterable (a range has no __name__, a
\* generator object has one).
Range == [k |-> "range", v |-> "range"]
Generator == [k |-> "generator", v |-> "gen"]
FuncOrNames == {NoneV, Str(""), Str("blk"), Fn("func"), Fn("method"), Range, Generator}
DisplayNames == {NoneV, Str(""), Str("dn")}
HasName(func) == func.k \in {"func", "generator"}
AttributeError == [type |-> "AttributeError", msg |-> "object has no attribute '__name__'"]
TypeError == [type |-> "TypeError", msg |-> "'Timer' object is not iterable"]

\* the elements an iterable yields
Elements(iterable) == IF iterable.k = "range" THEN <<0, 1>> ELSE <<0>>

Instances == {"d1", "d2"}
\* the positional arguments a call passes
ArgTuples == {<<"1">>}
\* how long user code sleeps at a time: 61.005 seconds
TickStep == 61 * Unit + 5

\* wrap_function(func): the value returned, self.__name__ afterwards, and the
\* exception raised while reading func.__name__
wrap_function(func, old_name) ==
    IF func = NoneV THEN [ret |-> func, name |-> old_name, exc |-> NoExc]
    ELSE IF HasName(func) THEN [ret |-> func, name |-> func.v, exc |-> NoExc]
    ELSE [ret |-> NoneV, name |-> old_name, exc |-> AttributeError]

\* Timer.__init__: the fields it leaves, and the exception it raised
Timer__init__(func_or_name, dn, etf) ==
    LET isname == func_or_name.k = "str"
        func == IF isname THEN NoneV ELSE func_or_name
        w == wrap_function(func, "")
    IN  [wrapped_func |-> w.ret,
         name |-> w.name,
         display_name |-> IF isname THEN func_or_name ELSE dn,
         start_time |-> NoneT,
         elapsed_time |-> NoneT,
         elapsed_time_format |-> etf,
         exc |-> w.exc]

\* timed(func, display_func_name=..., display_name=...): the display_name it
\* hands to Timer
timed_display_name(display_func_name, dn) ==
    IF display_func_name = TRUE /\ dn = NoneV THEN Str("") ELSE dn

\* func_name without the test display_name == ''
func_nameMut(dn, wf, nm) ==
    IF dn.k = "str" /\ dn.v # ""
    THEN "of '" \o Fore("name_color") \o dn.v \o Fore("main_color") \o "' "
    ELSE IF wf # NoneV
    THEN "of '" \o Fore("name_color") \o nm \o Fore("main_color") \o "' "
    ELSE ""

\* the property func_name
func_name(dn, wf, nm) ==
    IF dn.k = "str" /\ dn.v # ""
    THEN "of '" \o Fore("name_color") \o dn.v \o Fore("main_color") \o "' "
    ELSE IF dn = Str("") /\ wf # NoneV
    THEN "of '" \o Fore("name_color") \o nm \o Fore("main_color") \o "' "
    ELSE ""

\* an __exit__ that returns a truthy value
ExitSuppressesMut == TRUE
\* __exit__ returns None: a falsy value, so the with statement re-raises
ExitSuppresses == FALSE

\* __exit__: self.elapsed_time = time() - self.start_time
ExitElapsed(t, start) == t - start

\* the elapsed time the two _end_timer methods format: self.elapsed_time as
\* __exit__ has just set it
PrintedElapsed(old_elapsed, new_elapsed) == new_elapsed

\* the exit branch of __exit__: exc_type is truthy when the region raised
ExitLineKind(exc) == IF exc # NoExc THEN "terminated" ELSE "completed"

Top == stack[Len(stack)]
Idle == stack = <<>>
InBody == ~Idle /\ Top.phase = "body"
CanEnter ==
    /\ given.exc = NoExc
    /\ Len(stack) < MaxDepth
    /\ Idle \/ InBody

NoLast == [set |-> FALSE, mode |-> "", inst |-> "", args |-> <<>>, own |-> NoneT,
           exitAt |-> NoneT, elapsed |-> NoneT, exc |-> NoExc, delivered |-> NoExc,
           calls |-> <<>>, printed |-> <<>>]

TimerInit ==
    \E via \in {"Timer", "timed"}, first \in FuncOrNames, dn \in DisplayNames,
       dfn \in BOOLEAN, etf \in {"short", "long"} :
        /\ via = "Timer" => dfn = TRUE
        /\ LET dname == IF via = "timed" THEN timed_display_name(dfn, dn) ELSE dn
               t == Timer__init__(first, dname, etf)
           IN  /\ wrapped_func = t.wrapped_func
               /\ wrapped_method = NoneV
               /\ name = t.name
               /\ display_name = t.display_name
               /\ start_time = t.start_time
               /\ elapsed_time = t.elapsed_time
               /\ elapsed_time_format = t.elapsed_time_format
               /\ given = [first |-> first, display_name |-> dname, exc |-> t.exc,
                           wrapped |-> t.wrapped_func]
        /\ loop = [done |-> FALSE, yielded |-> <<>>, exc |-> NoExc, printed |-> <<>>]
        /\ now = 0
        /\ stack = <<>>
        /\ last = NoLast

\* _start_timer, then the activation is running
Enter(mode, inst, args, wf, nm) ==
    /\ start_time' = now
    /\ stack' = Append(stack,
             [mode |-> mode, inst |-> inst, args |-> args, own |-> now,
              phase |-> IF mode = "with" THEN "body" ELSE "invoke",
              callee |-> wf, cargs |-> args, depth |-> 0, calls |-> <<>>,
              printed |-> << [kind |-> "started",
                              clause |-> func_name(display_name, wf, nm),
                              dur |-> ""] >>])

\* __exit__(exc_type, exc_value, traceback) of the innermost activation
Exit(exc, tieUp) ==
    LET a == Top
        new_elapsed == ExitElapsed(now, start_time)
        shown == format_elapsed_time(elapsed_time_format, "time_color",
                                     PrintedElapsed(elapsed_time, new_elapsed), tieUp)
        kind == ExitLineKind(exc)
        line == [kind |-> kind,
                 clause |-> IF kind = "terminated" THEN ""
                            ELSE func_name(display_name, wrapped_func, name),
                 dur |-> shown]
    IN  /\ elapsed_time' = new_elapsed
        /\ last' = [set |-> TRUE, mode |-> a.mode, inst |-> a.inst, args |-> a.args,
                    own |-> a.own, exitAt |-> now, elapsed |-> new_elapsed,
                    exc |-> exc,
                    delivered |-> IF ExitSuppresses THEN NoExc ELSE exc,
                    calls |-> a.calls, printed |-> Append(a.printed, line)]
        /\ stack' = SubSeq(stack, 1, Len(stack) - 1)

\* with timer: ...
WithEnter ==
    /\ CanEnter
    /\ Enter("with", "", <<>>, wrapped_func, name)
    /\ last' = NoLast
    /\ UNCHANGED <<wrapped_func, wrapped_method, name, display_name, elapsed_time,
                   elapsed_time_format, given, loop, now, fmtVars, cmdVars>>

\* timer(f) while nothing is wrapped yet: __call__ wraps f and returns self
Decorate(f) ==
    /\ given.exc = NoExc
    /\ Idle
    /\ wrapped_func = NoneV
    /\ LET w == wrap_function(f, name)
       IN  /\ wrapped_func' = w.ret
           /\ name' = w.name
           /\ given' = [given EXCEPT !.wrapped = w.ret]
    /\ last' = NoLast
    /\ UNCHANGED <<wrapped_method, display_name, start_time, elapsed_time,
                   elapsed_time_format, loop, now, stack, fmtVars, cmdVars>>

\* func(*args) on a decorated function: __call__ enters the with block
Call(args) ==
    /\ CanEnter
    /\ wrapped_func = Fn("func")
    /\ Enter("call", "", args, wrapped_func, name)
    /\ last' = NoLast
    /\ UNCHANGED <<wrapped_func, wrapped_method, name, display_name, elapsed_time,
                   elapsed_time_format, given, loop, now, fmtVars, cmdVars>>

\* __get__(parent_of_wrapped_method): the two fields it rebinds
Timer__get__(parent) ==
    [wrapped_method |-> wrapped_func, wrapped_func |-> Lambda(parent)]

\* inst.method(*args) on a decorated method: __get__(inst), then __call__
MethodCall(inst, args) ==
    /\ CanEnter
    /\ wrapped_func # NoneV
    /\ name = "method"
    /\ LET g == Timer__get__(inst)
       IN  /\ wrapped_method' = g.wrapped_method
           /\ wrapped_func' = g.wrapped_func
           /\ Enter("method", inst, args, g.wrapped_func, name)
    /\ last' = NoLast
    /\ UNCHANGED <<name, display_name, elapsed_time, elapsed_time_format, given,
                   loop, now, fmtVars, cmdVars>>

\* what a lambda of __get__ calls: self.__wrapped_method, looked up when the
\* lambda runs, with the lambda's instance put first
LambdaCallee(lam, current_wrapped_method) == current_wrapped_method
LambdaArgs(lam, args) == <<lam.v>> \o args

\* self._wrapped_func(*args, **kwargs), one frame at a time: the function
\* itself starts running, or a lambda of __get__ calls on, or the
\* interpreter's frame limit is reached and RecursionError unwinds to __exit__
Invoke ==
    /\ ~Idle
    /\ Top.phase = "invoke"
    /\ LET a == Top
           n == Len(stack)
       IN  IF a.callee.k = "func"
           THEN /\ stack' = [stack EXCEPT ![n].phase = "body",
                                          ![n].calls = Append(@, a.cargs)]
                /\ last' = NoLast
                /\ UNCHANGED elapsed_time
           ELSE IF a.depth >= RecursionLimit
           THEN \E tieUp \in BOOLEAN : Exit(RecursionError, tieUp)
           ELSE /\ stack' = [stack EXCEPT
                                ![n].callee = LambdaCallee(a.callee, wrapped_method),
                                ![n].cargs = LambdaArgs(a.callee, a.cargs),
                                ![n].depth = @ + 1]
                /\ last' = NoLast
                /\ UNCHANGED elapsed_time
    /\ UNCHANGED <<wrapped_func, wrapped_method, name, display_name, start_time,
                   elapsed_time_format, given, loop, now, fmtVars, cmdVars>>

\* the timed region returns
RegionReturns ==
    /\ InBody
    /\ \E tieUp \in BOOLEAN : Exit(NoExc, tieUp)
    /\ UNCHANGED <<wrapped_func, wrapped_method, name, display_name, start_time,
                   elapsed_time_format, given, loop, now, fmtVars, cmdVars>>

\* the timed region raises
RegionRaises(e) ==
    /\ InBody
    /\ \E tieUp \in BOOLEAN : Exit(e, tieUp)
    /\ UNCHANGED <<wrapped_func, wrapped_method, name, display_name, start_time,
                   elapsed_time_format, given, loop, now, fmtVars, cmdVars>>

\* for i in Timer(iterable): the constructor's exception if it raised one;
\* otherwise iter() finds no __iter__ on the Timer
ForLoop ==
    /\ given.first.k \in {"range", "generator"}
    /\ ~loop.done
    /\ Idle
    /\ loop' = [loop EXCEPT !.done = TRUE,
                            !.exc = IF given.exc # NoExc THEN given.exc ELSE TypeError]
    /\ last' = NoLast
    /\ UNCHANGED <<wrapped_func, wrapped_method, name, display_name, start_time,
                   elapsed_time, elapsed_time_format, given, now, stack, fmtVars,
                   cmdVars>>

\* time passes while the user code of a timed region runs
Tick ==
    /\ InBody
    /\ now < MaxTicks * TickStep
    /\ now' = now + TickStep
    /\ last' = NoLast
    /\ UNCHANGED <<wrapped_func, wrapped_method, name, display_name, start_time,
                   elapsed_time, elapsed_time_format, given, loop, stack, fmtVars,
                   cmdVars>>

Next ==
    \/ WithEnter
    \/ \E f \in {Fn("func"), Fn("method")} : Decorate(f)
    \/ \E args \in ArgTuples : Call(args)
    \/ \E inst \in Instances, args \in ArgTuples : MethodCall(inst, args)
    \/ Invoke
    \/ RegionReturns
    \/ \E e \in Excs : RegionRaises(e)
    \/ ForLoop
    \/ Tick

(***************************************************************************)
(* format_elapsed_time on its own: a duration is drawn, then formatted.    *)
(***************************************************************************)
\* the durations drawn, in thousandths of a second
Durations ==
    { (((days * 24 + hours) * 60 + minutes) * 60) * Unit + ms :
        days \in 0..MaxDays, hours \in {0, 1, 23}, minutes \in {0, 1, 59},
        ms \in {0, 4, 5, 500, 1000, 1004, 1500, 5000, 59995, 59999} }

FmtIdle == fmtIn = [seconds |-> 0, fmt |-> "short"] /\ fmtOut = [done |-> FALSE]

FmtInit ==
    /\ fmtIn \in [seconds : Durations, fmt : {"short", "long"}]
    /\ fmtOut = [done |-> FALSE]

\* timer.format_elapsed_time(seconds); parts is what its loop handed to format_time
FormatElapsed ==
    /\ ~fmtOut.done
    /\ \E tieUp \in BOOLEAN :
          fmtOut' = [done |-> TRUE, tieUp |-> tieUp,
                     parts |-> PeriodLoop(fmtIn.seconds, 1),
                     text |-> format_elapsed_time(fmtIn.fmt, "time_color",
                                                  fmtIn.seconds, tieUp)]
    /\ UNCHANGED <<fmtIn, timerVars, cmdVars>>

(***************************************************************************)
(* func_to_cmd.                                                            *)
(***************************************************************************)
\* Python values handed to and from the wrapped function: a bool, an int, a
\* str (a sequence of characters) or a list of those
VBool(b) == [t |-> "bool", b |-> b, n |-> 0, s |-> <<>>, l |-> <<>>]
VInt(n) == [t |-> "int", b |-> FALSE, n |-> n, s |-> <<>>, l |-> <<>>]
VStr(s) == [t |-> "str", b |-> FALSE, n |-> 0, s |-> s, l |-> <<>>]
VList(l) == [t |-> "list", b |-> FALSE, n |-> 0, s |-> <<>>, l |-> l]
Failed == [ok |-> FALSE, val |-> VStr(<<>>)]
Parsed(v) == [ok |-> TRUE, val |-> v]

UpperCase == <<"A", "E", "F", "L", "N", "O", "R", "S", "T", "U", "X", "Y">>
LowerCase == <<"a", "e", "f", "l", "n", "o", "r", "s", "t", "u", "x", "y">>

\* str.lower(), character by character
LowerChar(c) ==
    IF \E i \in 1..Len(UpperCase) : UpperCase[i] = c
    THEN LowerCase[CHOOSE i \in 1..Len(UpperCase) : UpperCase[i] = c]
    ELSE c
lower(arg) == [i \in 1..Len(arg) |-> LowerChar(arg[i])]

TrueWords == {<<"t", "r", "u", "e">>, <<"t">>, <<"y", "e", "s">>, <<"y">>, <<"1">>}
FalseWords == {<<"f", "a", "l", "s", "e">>, <<"f">>, <<"n", "o">>, <<"n">>, <<"0">>}

\* bool_parse without lower()
bool_parseMut(arg) ==
    IF arg \in TrueWords THEN Parsed(VBool(TRUE))
    ELSE IF arg \in FalseWords THEN Parsed(VBool(FALSE))
    ELSE Failed

\* bool_parse(arg); Failed stands for raising ArgumentTypeError
bool_parse(arg) ==
    IF lower(arg) \in TrueWords THEN Parsed(VBool(TRUE))
    ELSE IF lower(arg) \in FalseWords THEN Parsed(VBool(FALSE))
    ELSE Failed

NotOpen(c) == c # "["
NotClose(c) == c # "]"
\* arg.replace('[', '').replace(']', '')
StripBrackets(arg) == SelectSeq(SelectSeq(arg, NotOpen), NotClose)

\* arg.split(','): the pieces between the commas, in order
RECURSIVE SplitFrom(_, _, _)
SplitFrom(arg, i, piece) ==
    IF i > Len(arg) THEN <<piece>>
    ELSE IF arg[i] = "," THEN <<piece>> \o SplitFrom(arg, i + 1, <<>>)
    ELSE SplitFrom(arg, i + 1, Append(piece, arg[i]))
split(arg) == SplitFrom(arg, 1, <<>>)

Digits == <<"0", "1", "2", "3", "4", "5", "6", "7", "8", "9">>
IsDigit(c) == \E d \in 1..Len(Digits) : Digits[d] = c
DigitValue(c) == (CHOOSE d \in 1..Len(Digits) : Digits[d] = c) - 1

RECURSIVE StripLeft(_)
StripLeft(x) == IF Len(x) > 0 /\ x[1] = " " THEN StripLeft(Tail(x)) ELSE x
RECURSIVE StripRight(_)
StripRight(x) ==
    IF Len(x) > 0 /\ x[Len(x)] = " " THEN StripRight(SubSeq(x, 1, Len(x) - 1)) ELSE x

RECURSIVE DigitsValue(_, _)
DigitsValue(x, acc) ==
    IF Len(x) = 0 THEN acc ELSE DigitsValue(Tail(x), 10 * acc + DigitValue(x[1]))

\* int(x) of a str: blanks around it dropped, an optional sign, then digits
\* only; Failed stands for raising ValueError
int(x) ==
    LET y == StripRight(StripLeft(x))
        signed == Len(y) > 0 /\ y[1] \in {"+", "-"}
        body == IF signed THEN Tail(y) ELSE y
    IN  IF Len(body) = 0 \/ \E i \in 1..Len(body) : ~IsDigit(body[i])
        THEN Failed
        ELSE Parsed(VInt(IF signed /\ y[1] = "-" THEN 0 - DigitsValue(body, 0)
                                                  ELSE DigitsValue(body, 0)))

\* list_type(value) for the list_type list_parse was given: int, str or bool
\* called on a str
Coerce(list_type, value) ==
    CASE list_type = "int" -> int(value)
      [] list_type = "bool" -> Parsed(VBool(Len(value) > 0))
      [] OTHER -> Parsed(VStr(value))

\* list_parse without the two replace() calls
list_parseMut(list_type, arg) ==
    LET pieces == split(arg)
        elems == [i \in 1..Len(pieces) |-> Coerce(list_type, pieces[i])]
    IN  IF \E i \in 1..Len(elems) : ~elems[i].ok THEN Failed
        ELSE Parsed(VList([i \in 1..Len(elems) |-> elems[i].val]))

\* list_parse(list_type)(arg)
list_parse(list_type, arg) ==
    LET pieces == split(StripBrackets(arg))
        elems == [i \in 1..Len(pieces) |-> Coerce(list_type, pieces[i])]
    IN  IF \E i \in 1..Len(elems) : ~elems[i].ok THEN Failed
        ELSE Parsed(VList([i \in 1..Len(elems) |-> elems[i].val]))

\* the type= the loop of parser() registers for a key whose value is `value`
ValueType(value) ==
    IF value.t = "bool" THEN [kind |-> "bool_parse", list_type |-> ""]
    ELSE IF value.t = "list"
    THEN [kind |-> "list_parse",
          list_type |-> IF Len(value.l) > 0 THEN value.l[1].t ELSE "str"]
    ELSE [kind |-> value.t, list_type |-> ""]

\* argparse calling type(token)
ApplyType(type, token) ==
    CASE type.kind = "bool_parse" -> bool_parse(token)
      [] type.kind = "list_parse" -> list_parse(type.list_type, token)
      [] type.kind = "int" -> int(token)
      [] OTHER -> Parsed(VStr(token))

\* the functions func_to_cmd decorates: their parameters and declared defaults
Signature(f) ==
    CASE f = 1 -> << [key |-> "flag", default |-> VBool(TRUE)],
                     [key |-> "items", default |-> VList(<<VInt(1), VInt(2)>>)] >>
      [] f = 2 -> << [key |-> "count", default |-> VInt(1)],
                     [key |-> "names", default |-> VList(<<>>)] >>
      [] OTHER -> << [key |-> "label", default |-> VStr(<<"x">>)],
                     [key |-> "bits", default |-> VList(<<VBool(TRUE)>>)] >>
Funcs == {1, 2, 3}
Keys(f) == {Signature(f)[i].key : i \in 1..Len(Signature(f))}
Default(f, key) ==
    Signature(f)[CHOOSE i \in 1..Len(Signature(f)) : Signature(f)[i].key = key].default

\* what calling code may pass for a key instead of its default
CallerValue(key) ==
    CASE key = "flag" -> VBool(FALSE)
      [] key = "items" -> VList(<<>>)
      [] key = "count" -> VInt(5)
      [] key = "names" -> VList(<<VInt(3)>>)
      [] key = "label" -> VStr(<<"y">>)
      [] OTHER -> VList(<<VBool(FALSE)>>)

BoolTokens == 
    {<<"t", "r", "u", "e">>, <<"T", "r", "u", "e">>, <<"T", "R", "U", "E">>, <<"t">>, <<"Y", "e", "s">>, <<"1">>, <<"f", "a", "l", "s", "e">>, <<"F">>, <<"n", "O">>, <<"0">>, <<"t", "r", "u">>, <<"2">>, <<>>}
ListTokens == 
    {<<"[", "1", ",", "2", ",", "3", "]">>, <<"1", ",", "2", ",", "3">>, <<"[", "]">>, <<"[", "7", "]">>, <<"[", "a", ",", "b", "]">>, <<"1", "]", "2", "[", ",", "3">>, <<"[", "1", ",", "x", "]">>, <<"[", "1", ",", " ", "2", "]">>}
IntTokens == {<<"7">>, <<"-", "3">>, <<"x">>, <<>>}
StrTokens == {<<"h", "i">>, <<>>}
\* the values a command line may give to --key
TokensFor(f, key) ==
    IF key \notin Keys(f) THEN {<<"1">>}
    ELSE CASE Default(f, key).t = "bool" -> BoolTokens
           [] Default(f, key).t = "list" -> ListTokens
           [] Default(f, key).t = "int" -> IntTokens
           [] OTHER -> StrTokens
Flags(f) ==
    {[key |-> k, token |-> t] : k \in Keys(f) \cup {"zzz"}, t \in BoolTokens \cup ListTokens
                                     \cup IntTokens \cup StrTokens \cup {<<"1">>}}
FlagsOf(f) == {fl \in Flags(f) : fl.token \in TokensFor(f, fl.key)}
CommandLines(f) == UNION {[1..n -> FlagsOf(f)] : n \in 0..MaxFlags}

\* the caller's kwargs alone, the declared defaults forgotten
signature_kwargsMut(f, kwargs) ==
    [k \in DOMAIN kwargs |-> kwargs[k]]

\* signature_kwargs after signature_kwargs.update(kwargs)
signature_kwargs(f, kwargs) ==
    [k \in Keys(f) |-> IF k \in DOMAIN kwargs THEN kwargs[k] ELSE Default(f, k)]

\* an option that leaves the default in place
StoreFlagMut(namespace, key, val) == namespace
\* one option seen by parse_args: the value argparse stores under its dest
StoreFlag(namespace, key, val) == [namespace EXCEPT ![key] = val]

\* parser.parse_args() from the i-th option on: options of unknown name are set
\* aside, a token its type rejects ends the run at once, every other token is
\* converted and stored.  conv lists the conversions made.
RECURSIVE parse_args(_, _, _, _, _, _)
parse_args(types, namespace, argv, i, extras, conv) ==
    IF i > Len(argv)
    THEN [ok |-> extras = <<>>, namespace |-> namespace, conv |-> conv]
    ELSE LET key == argv[i].key
             token == argv[i].token
         IN  IF key \notin DOMAIN types
             THEN parse_args(types, namespace, argv, i + 1, Append(extras, key), conv)
             ELSE LET r == ApplyType(types[key], token)
                      c == [key |-> key, token |-> token, type |-> types[key],
                            ok |-> r.ok, val |-> r.val]
                  IN  IF r.ok
                      THEN parse_args(types, StoreFlag(namespace, key, r.val), argv,
                                      i + 1, extras, Append(conv, c))
                      ELSE [ok |-> FALSE, namespace |-> namespace,
                            conv |-> Append(conv, c)]

\* what the wrapped function returns: it reports the arguments it was given
FuncResult(f, kwargs) == [func |-> f, got |-> kwargs]

CmdIdle == cmdIn = [func |-> 0] /\ cmdOut = [done |-> FALSE]

CmdInit ==
    /\ \E f \in Funcs :
         \E passed \in SUBSET Keys(f), argv \in CommandLines(f) :
            cmdIn = [func |-> f, kwargs |-> [k \in passed |-> CallerValue(k)],
                     argv |-> argv]
    /\ cmdOut = [done |-> FALSE]

\* parser(**kwargs), the entry point func_to_cmd returns: exit is the status
\* argparse leaves the process with (2) when it stops it, calls the times the
\* wrapped function was invoked
RunParser ==
    /\ ~cmdOut.done
    /\ LET f == cmdIn.func
           merged == signature_kwargs(f, cmdIn.kwargs)
           types == [k \in DOMAIN merged |-> ValueType(merged[k])]
           p == parse_args(types, merged, cmdIn.argv, 1, <<>>, <<>>)
       IN  cmdOut' = IF p.ok
                     THEN [done |-> TRUE, exit |-> 0, calls |-> 1, conv |-> p.conv,
                           kwargs |-> p.namespace,
                           result |-> FuncResult(f, p.namespace)]
                     ELSE [done |-> TRUE, exit |-> 2, calls |-> 0, conv |-> p.conv,
                           kwargs |-> << >>, result |-> FuncResult(0, << >>)]
    /\ UNCHANGED <<cmdIn, timerVars, fmtVars>>

\* a Timer() nobody uses, beside the other two components
TimerIdle ==
    LET t == Timer__init__(NoneV, Str(""), "short")
    IN  /\ wrapped_func = t.wrapped_func
        /\ wrapped_method = NoneV
        /\ name = t.name
        /\ display_name = t.display_name
        /\ start_time = t.start_time
        /\ elapsed_time = t.elapsed_time
        /\ elapsed_time_format = t.elapsed_time_format
        /\ given = [first |-> NoneV, display_name |-> Str(""), exc |-> t.exc,
                    wrapped |-> t.wrapped_func]
        /\ loop = [done |-> FALSE, yielded |-> <<>>, exc |-> NoExc, printed |-> <<>>]
        /\ now = 0
        /\ stack = <<>>
        /\ last = NoLast

Init == TimerInit /\ FmtIdle /\ CmdIdle
Spec == Init /\ [][Next]_vars

InitFmt == TimerIdle /\ FmtInit /\ CmdIdle
NextFmt == FormatElapsed
SpecFmt == InitFmt /\ [][NextFmt]_vars

InitCmd == TimerIdle /\ FmtIdle /\ CmdInit
NextCmd == RunParser
SpecCmd == InitCmd /\ [][NextCmd]_vars

(***************************************************************************)
(* The claims about the Timer.                                             *)
(***************************************************************************)
IsTerminal(line) == line.kind \in {"completed", "terminated"}
TerminalLines(printed) == SelectSeq(printed, IsTerminal)
ShownFor(seconds) ==
    {format_elapsed_time(elapsed_time_format, "time_color", seconds, tieUp) :
        tieUp \in BOOLEAN}

\* C1: an activation that is still running has printed its start line and no
\* terminal line; an activation that has exited has printed exactly one
\* terminal line, 'completed' if its region returned and 'terminated' if it
\* raised, elapsed_time is recorded and is the duration that line shows, and
\* the exception the region raised is the one handed to the caller.
C1_OneTerminalOutcome ==
    /\ \A i \in 1..Len(stack) :
          /\ Len(stack[i].printed) = 1
          /\ stack[i].printed[1].kind = "started"
    /\ last.set =>
          LET term == TerminalLines(last.printed)
          IN  /\ Len(term) = 1
              /\ (last.exc = NoExc) <=> (term[1].kind = "completed")
              /\ (last.exc # NoExc) <=> (term[1].kind = "terminated")
              /\ elapsed_time # NoneT
              /\ elapsed_time = last.elapsed
              /\ term[1].dur \in ShownFor(elapsed_time)
              /\ last.delivered = last.exc

\* a region raised, 'terminated' was printed and the caller got the exception
C1_Witness ==
    /\ last.set
    /\ last.exc \in Excs
    /\ last.delivered = last.exc
    /\ last.printed[Len(last.printed)].kind = "terminated"

\* C2: every invocation of a decorated method through an instance calls the
\* original method exactly once, with that instance as self followed by the
\* arguments the caller passed.
C2_MethodCalledOnce ==
    /\ \A i \in 1..Len(stack) :
          (stack[i].mode = "method" /\ stack[i].phase = "body") =>
              stack[i].calls = << <<stack[i].inst>> \o stack[i].args >>
    /\ (last.set /\ last.mode = "method") =>
          last.calls = << <<last.inst>> \o last.args >>

\* C3: iterating over a Timer constructed around an iterable prints the start
\* line named after the iterable's type, yields every element in order and
\* ends with the completed line.
C3_IterableTimed ==
    loop.done =>
        /\ loop.exc = NoExc
        /\ loop.yielded = Elements(given.first)
        /\ Len(loop.printed) >= 2
        /\ loop.printed[1].kind = "started"
        /\ loop.printed[1].clause = "of '" \o given.first.k \o "' "
        /\ \E i \in 1..Len(loop.printed) : loop.printed[i].kind = "completed"

\* the name supplied explicitly: the first argument when it is a string (it
\* takes the place of display_name), display_name otherwise
SuppliedName == IF given.first.k = "str" THEN given.first ELSE given.display_name
ExpectedClause ==
    IF SuppliedName.k = "str" /\ SuppliedName.v # ""
    THEN "of '" \o SuppliedName.v \o "' "
    ELSE IF SuppliedName = Str("") /\ given.wrapped # NoneV
    THEN "of '" \o given.wrapped.v \o "' "
    ELSE ""
NamedLinesOk(printed) ==
    \A i \in 1..Len(printed) :
        printed[i].kind \in {"started", "completed"} =>
            printed[i].clause = ExpectedClause

\* C9: every start line and every completed line shows the explicit display
\* name when a non-empty one was supplied; otherwise the wrapped callable's
\* __name__ when display_name is '' and a callable is wrapped; otherwise no
\* `of '<name>'` clause at all.
C9_NameClause ==
    /\ \A i \in 1..Len(stack) : NamedLinesOk(stack[i].printed)
    /\ last.set => NamedLinesOk(last.printed)

\* @Timer on a function: both lines name the function
C9_Witness ==
    /\ last.set
    /\ last.exc = NoExc
    /\ given.first = Fn("func")
    /\ given.display_name = Str("")
    /\ last.printed = << [kind |-> "started", clause |-> "of 'func' ", dur |-> ""],
                         [kind |-> "completed", clause |-> "of 'func' ",
                          dur |-> "1m 1.00s"] >>

\* C10: the elapsed_time recorded when an activation exits is the exit time
\* minus the time of that activation's own entry.
C10_OwnStart ==
    last.set => last.elapsed = last.exitAt - last.own

(***************************************************************************)
(* The claims about func_to_cmd.                                           *)
(***************************************************************************)
Ran == cmdOut.done /\ cmdOut.calls = 1
FlagIndexes(key) == {i \in 1..Len(cmdIn.argv) : cmdIn.argv[i].key = key}
HasFlag(key) == FlagIndexes(key) # {}
LastToken(key) ==
    cmdIn.argv[CHOOSE i \in FlagIndexes(key) : \A j \in FlagIndexes(key) : j <= i].token
\* the default argparse is given for a key: the caller's keyword value when
\* one was passed, the declared default otherwise
EffectiveDefault(key) ==
    IF key \in DOMAIN cmdIn.kwargs THEN cmdIn.kwargs[key]
    ELSE Default(cmdIn.func, key)

\* C4 as stated: a key passed both by the calling code and on the command
\* line reaches the function with the caller's value.
C4_CallerWins ==
    Ran => \A k \in DOMAIN cmdIn.kwargs :
              HasFlag(k) => cmdOut.kwargs[k] = cmdIn.kwargs[k]

\* C4 as amended: a key given on the command line reaches the function with
\* the value of its last flag, coerced by the rule derived from the key's
\* effective default, whether or not the calling code passed the key; a key
\* with no flag reaches it with the caller's value if one was passed and with
\* the declared default otherwise.
C4_FlagsWin ==
    Ran => \A k \in Keys(cmdIn.func) :
              cmdOut.kwargs[k] =
                 IF HasFlag(k)
                 THEN ApplyType(ValueType(EffectiveDefault(k)), LastToken(k)).val
                 ELSE EffectiveDefault(k)

\* a key passed by both, and the function got the command line's value
C4_Witness ==
    /\ Ran
    /\ \E k \in DOMAIN cmdIn.kwargs :
          /\ HasFlag(k)
          /\ cmdOut.kwargs[k] # cmdIn.kwargs[k]
          /\ cmdOut.kwargs[k] = VBool(TRUE)

\* C5: with no caller kwargs and no command-line arguments the function is
\* invoked exactly once, every parameter at its declared default, and the
\* entry point returns what that call returned.
C5_DefaultsOnly ==
    (cmdOut.done /\ DOMAIN cmdIn.kwargs = {} /\ cmdIn.argv = <<>>) =>
        /\ cmdOut.calls = 1
        /\ cmdOut.exit = 0
        /\ DOMAIN cmdOut.kwargs = Keys(cmdIn.func)
        /\ \A k \in Keys(cmdIn.func) : cmdOut.kwargs[k] = Default(cmdIn.func, k)
        /\ cmdOut.result =
              FuncResult(cmdIn.func, [k \in Keys(cmdIn.func) |-> Default(cmdIn.func, k)])

C5_Witness ==
    /\ cmdOut.done
    /\ cmdIn.func = 1
    /\ DOMAIN cmdIn.kwargs = {}
    /\ cmdIn.argv = <<>>
    /\ cmdOut.result.got["items"] = VList(<<VInt(1), VInt(2)>>)

\* the two cases of a letter
CasePairs == 
    {<<"a", "A">>, <<"e", "E">>, <<"f", "F">>, <<"l", "L">>, <<"n", "N">>, <<"o", "O">>, <<"r", "R">>, <<"s", "S">>, <<"t", "T">>, <<"u", "U">>, <<"y", "Y">>}
SameIgnoringCase(a, w) ==
    /\ Len(a) = Len(w)
    /\ \A i \in 1..Len(w) : a[i] = w[i] \/ <<w[i], a[i]>> \in CasePairs
IsTruthy(token) == \E w \in TrueWords : SameIgnoringCase(token, w)
IsFalsy(token) == \E w \in FalseWords : SameIgnoringCase(token, w)

\* C6: a token given to a boolean option parses to True when it equals one of
\* true, t, yes, y, 1 ignoring case, to False when it equals one of false, f,
\* no, n, 0 ignoring case; any other token is an argument error: no value,
\* and the wrapped function is not invoked.
C6_BoolParse ==
    cmdOut.done =>
        \A i \in 1..Len(cmdOut.conv) :
            LET c == cmdOut.conv[i]
            IN  c.type.kind = "bool_parse" =>
                   /\ IsTruthy(c.token) => (c.ok /\ c.val = VBool(TRUE))
                   /\ IsFalsy(c.token) => (c.ok /\ c.val = VBool(FALSE))
                   /\ (~IsTruthy(c.token) /\ ~IsFalsy(c.token)) =>
                         (~c.ok /\ cmdOut.calls = 0 /\ cmdOut.exit = 2)

\* a mixed-case token accepted, then a token rejected
C6_Witness ==
    /\ cmdOut.done
    /\ Len(cmdOut.conv) = 2
    /\ cmdOut.conv[1].token = <<"n", "O">>
    /\ cmdOut.conv[1].val = VBool(FALSE)
    /\ cmdOut.conv[2].token = <<"t", "r", "u">>
    /\ ~cmdOut.conv[2].ok
    /\ cmdOut.calls = 0

CountCommas(token) == Cardinality({i \in 1..Len(token) : token[i] = ","})
RECURSIVE Unbracketed(_)
Unbracketed(token) ==
    IF Len(token) = 0 THEN <<>>
    ELSE IF Head(token) \in {"[", "]"} THEN Unbracketed(Tail(token))
    ELSE <<Head(token)>> \o Unbracketed(Tail(token))
RECURSIVE JoinComma(_)
JoinComma(strs) ==
    IF Len(strs) = 0 THEN <<>>
    ELSE IF Len(strs) = 1 THEN strs[1].s
    ELSE strs[1].s \o <<",">> \o JoinComma(Tail(strs))
ElementType(key) ==
    IF Len(EffectiveDefault(key).l) > 0 THEN EffectiveDefault(key).l[1].t ELSE "str"

\* C7: a token given to a list option that parses gives a list with one
\* element per comma-separated item, in input order, each of the type of the
\* first element of the option's default list (str when that list is empty),
\* the brackets being optional: `[1,2,3]` and `1,2,3` with an integer default
\* list both give the integers 1, 2, 3.
C7_ListParse ==
    cmdOut.done =>
        \A i \in 1..Len(cmdOut.conv) :
            LET c == cmdOut.conv[i]
            IN  c.type.kind = "list_parse" =>
                   /\ c.ok =>
                         /\ c.val.t = "list"
                         /\ Len(c.val.l) = CountCommas(c.token) + 1
                         /\ \A j \in 1..Len(c.val.l) : c.val.l[j].t = ElementType(c.key)
                         /\ ElementType(c.key) = "str" =>
                               JoinComma(c.val.l) = Unbracketed(c.token)
                   /\ (ElementType(c.key) = "int"
                         /\ c.token \in {<<"[", "1", ",", "2", ",", "3", "]">>, <<"1", ",", "2", ",", "3">>}) =>
                         (c.ok /\ c.val = VList(<<VInt(1), VInt(2), VInt(3)>>))

C7_Witness ==
    /\ Ran
    /\ cmdIn.func = 1
    /\ cmdIn.argv = << [key |-> "items", token |-> <<"[", "1", ",", "2", ",", "3", "]">>] >>
    /\ cmdOut.kwargs["items"] = VList(<<VInt(1), VInt(2), VInt(3)>>)

(***************************************************************************)
(* The claims about format_elapsed_time.                                   *)
(***************************************************************************)
PeriodRank(period) ==
    CASE period = "d" -> 1 [] period = "h" -> 2 [] period = "m" -> 3 [] OTHER -> 4
\* a period's length in thousandths of a second
Threshold(period) ==
    CASE period = "d" -> 86400 * Unit
      [] period = "h" -> 3600 * Unit
      [] period = "m" -> 60 * Unit
      [] OTHER -> Unit
RECURSIVE PartsTotal(_)
PartsTotal(parts) ==
    IF Len(parts) = 0 THEN 0
    ELSE (IF parts[1].period = "s" THEN parts[1].value
          ELSE (parts[1].value \div Unit) * Threshold(parts[1].period))
         + PartsTotal(Tail(parts))
\* the greedy decomposition, computed directly
Whole(d, period) ==
    CASE period = "d" -> d \div Threshold("d")
      [] period = "h" -> (d % Threshold("d")) \div Threshold("h")
      [] period = "m" -> (d % Threshold("h")) \div Threshold("m")
\* seconds with two decimals: the hundredths nearest to ms thousandths
Hundredths(ms, tieUp) ==
    IF ms % 10 = 5 THEN (IF tieUp THEN (ms + 5) \div 10 ELSE (ms - 5) \div 10)
    ELSE (ms + 5) \div 10
ShortSeconds(ms, tieUp) ==
    LET h == Hundredths(ms, tieUp)
    IN  ToString(h \div 100) \o "." \o (IF h % 100 < 10 THEN "0" ELSE "")
        \o ToString(h % 100) \o "s"
ShortText(d, tieUp) ==
    (IF Whole(d, "d") > 0 THEN ToString(Whole(d, "d")) \o "d " ELSE "")
    \o (IF Whole(d, "h") > 0 THEN ToString(Whole(d, "h")) \o "h " ELSE "")
    \o (IF Whole(d, "m") > 0 THEN ToString(Whole(d, "m")) \o "m " ELSE "")
    \o ShortSeconds(d % Threshold("m"), tieUp)

\* C8: format_elapsed_time renders the greedy decomposition of the duration:
\* a day, hour or minute component appears only if the duration is at least
\* that unit's length, the seconds component always appears, last, with two
\* decimals, the components come in the order d, h, m, s, each is the greedy
\* quotient, and together they add up to the duration; 65 seconds is
\* `1m 5.00s` in short mode, 3661 seconds `1 hour 1 minute 1.00 second` in
\* long mode.
C8_GreedyDecomposition ==
    fmtOut.done =>
        LET d == fmtIn.seconds
            parts == fmtOut.parts
            n == Len(parts)
        IN  /\ n >= 1
            /\ parts[n].period = "s"
            /\ \A i \in 1..(n - 1) :
                  /\ PeriodRank(parts[i].period) < PeriodRank(parts[i + 1].period)
                  /\ d >= Threshold(parts[i].period)
                  /\ parts[i].value = Whole(d, parts[i].period) * Unit
            /\ \A p \in {"d", "h", "m"} :
                  Whole(d, p) > 0 => \E i \in 1..(n - 1) : parts[i].period = p
            /\ parts[n].value = d % Threshold("m")
            /\ PartsTotal(parts) = d
            /\ fmtIn.fmt = "short" => fmtOut.text = ShortText(d, fmtOut.tieUp)
            /\ (d = 65 * Unit /\ fmtIn.fmt = "short") => fmtOut.text = "1m 5.00s"
            /\ (d = 3661 * Unit /\ fmtIn.fmt = "long") =>
                  fmtOut.text = "1 hour 1 minute 1.00 second"

C8_Witness ==
    /\ fmtOut.done
    /\ fmtIn = [seconds |-> 3661 * Unit, fmt |-> "long"]
    /\ fmtOut.text = "1 hour 1 minute 1.00 second"

\* the unit word of a magnitude (in thousandths): singular exactly for 1
UnitWord(period, magnitude) ==
    PeriodWord(period) \o (IF magnitude = Unit THEN "" ELSE "s")
LongSeconds(ms, tieUp) ==
    LET h == Hundredths(ms, tieUp)
    IN  ToString(h \div 100) \o "." \o (IF h % 100 < 10 THEN "0" ELSE "")
        \o ToString(h % 100) \o " " \o UnitWord("s", ms)
LongWhole(d, period) ==
    IF Whole(d, period) > 0
    THEN ToString(Whole(d, period)) \o " "
         \o UnitWord(period, Whole(d, period) * Unit) \o " "
    ELSE ""
LongText(d, tieUp) ==
    LongWhole(d, "d") \o LongWhole(d, "h") \o LongWhole(d, "m")
    \o LongSeconds(d % Threshold("m"), tieUp)

\* C11: in long mode every rendered unit word (day, hour, minute, second) is
\* singular exactly when its magnitude is exactly 1 and carries the trailing
\* `s` for every other magnitude, a seconds value of 0 and fractional seconds
\* values below 1 or between 1 and 2 included.
C11_SingularOnlyForOne ==
    (fmtOut.done /\ fmtIn.fmt = "long") =>
        fmtOut.text = LongText(fmtIn.seconds, fmtOut.tieUp)

====
